---- MODULE Spec2Model ----
(***************************************************************************)
(* Model of the Cogix release worker (src/src/index.ts and its variant     *)
(* src/unnamed/part_000): the key/tag parser parseReleaseMetadata, the     *)
(* listing, product listing, statistics and download handlers, the R2      *)
(* bucket they read, and the script of the download page.                  *)
(*                                                                         *)
(* A JavaScript string is a sequence of one-character strings, so that     *)
(* split and join act on characters.  A value that may be missing (a Date, *)
(* latestUpload) is a sequence of length 0 or 1.                           *)
(***************************************************************************)
EXTENDS Integers, Sequences, FiniteSets, TLC

VARIABLES
    store,   \* the R2 bucket: the objects in the order a list call yields them
    resp,    \* the response of the request being served, or NoResponse
    arg,     \* parser check: the R2 object handed to parseReleaseMetadata
    conv,    \* parser check: the fields a producer built arg's key from, or NoConv
    ret,     \* parser check: what parseReleaseMetadata returned, or NotCalled
    calls,   \* the calls on the bucket made by the request being served
    requests, \* concurrency check: the requests in flight, one per slot
    page     \* page check: the state of the download page in a browser

vars == <<store, resp, arg, conv, ret, calls, requests, page>>

----------------------------------------------------------------------------
(* JavaScript values *)

\* undefined: a one-element sequence no string equals (a string's elements
\* are single characters)
Undefined == <<"undefined">>

Unknown == <<"u", "n", "k", "n", "o", "w", "n">>

\* a || b on strings and undefined: the empty string and undefined are falsy
Truthy(v) == v # Undefined /\ v # <<>>

OrElse(a, b) == IF Truthy(a) THEN a ELSE b

\* String.prototype.split(sep) with a one-character separator: never empty,
\* "" splits to [""]
RECURSIVE Split(_, _)
Split(s, sep) ==
    IF \E i \in 1..Len(s) : s[i] = sep
    THEN LET i == CHOOSE k \in 1..Len(s) :
                      s[k] = sep /\ \A j \in 1..(k - 1) : s[j] # sep
         IN  <<SubSeq(s, 1, i - 1)>> \o Split(SubSeq(s, i + 1, Len(s)), sep)
    ELSE <<s>>

\* the parts run together, the separator forgotten
RECURSIVE JoinNoSeparator(_, _)
JoinNoSeparator(parts, sep) ==
    IF Len(parts) = 0 THEN <<>>
    ELSE parts[1] \o JoinNoSeparator(Tail(parts), sep)

\* Array.prototype.join(sep)
RECURSIVE Join(_, _)
Join(parts, sep) ==
    IF Len(parts) = 0 THEN <<>>
    ELSE IF Len(parts) = 1 THEN parts[1]
    ELSE parts[1] \o <<sep>> \o Join(Tail(parts), sep)

\* Array.prototype.pop() as an expression: the last element
Pop(parts) == parts[Len(parts)]

\* customMetadata.<name>: undefined when the tag is not there
Tag(customMetadata, name) ==
    IF name \in DOMAIN customMetadata THEN customMetadata[name] ELSE Undefined

\* a Date is <<ms since the epoch>>; a missing one is <<>>
Absent == <<>>
Date(t) == <<t>>
getTime(d) == d[1]

\* Date.prototype.toISOString(): the fields of YYYY-MM-DDTHH:mm:ss.sssZ
toISOString(d) ==
    LET t    == getTime(d)
        days == t \div 86400000
        rest == t % 86400000
        z    == days + 719468
        era  == z \div 146097
        doe  == z % 146097
        yoe  == (doe - (doe \div 1460) + (doe \div 36524) - (doe \div 146096)) \div 365
        doy  == doe - (365 * yoe + (yoe \div 4) - (yoe \div 100))
        mp   == (5 * doy + 2) \div 153
        m    == IF mp < 10 THEN mp + 3 ELSE mp - 9
    IN  [ year   |-> yoe + era * 400 + (IF m <= 2 THEN 1 ELSE 0),
          month  |-> m,
          day    |-> doy - ((153 * mp + 2) \div 5) + 1,
          hour   |-> rest \div 3600000,
          minute |-> (rest \div 60000) % 60,
          second |-> (rest \div 1000) % 60,
          ms     |-> rest % 1000 ]

----------------------------------------------------------------------------
(* parseReleaseMetadata *)

\* the null result
Null == [null |-> TRUE]

\* product: customMetadata.product || product
ProductFromSwappedTag(customMetadata, fromKey) ==
    OrElse(Tag(customMetadata, "version"), fromKey)

ResolveProduct(customMetadata, fromKey) ==
    OrElse(Tag(customMetadata, "product"), fromKey)

\* arch: customMetadata.arch || arch || 'unknown'
ResolveArch(customMetadata, fromKey) ==
    OrElse(Tag(customMetadata, "arch"), OrElse(fromKey, Unknown))

\* filename taken from a filename tag when there is one
FilenameFromTag(customMetadata, filename) ==
    OrElse(Tag(customMetadata, "filename"), filename)

\* filename: filename -- the tags are not consulted
StoredFilename(customMetadata, filename) == filename

\* a key of fewer than three segments only
IsShortKeyBelowThree(pathParts) == Len(pathParts) < 3

\* if (pathParts.length < 4)
IsShortKey(pathParts) == Len(pathParts) < 4

\* a key that does not fit the convention treated as a parse failure
FallbackRejected(object, customMetadata) == Null

\* the fallback for a key of fewer than 4 segments
FallbackMetadata(object, customMetadata) ==
    [ product     |-> ResolveProduct(customMetadata, Unknown),
      version     |-> OrElse(Tag(customMetadata, "version"), Unknown),
      platform    |-> OrElse(Tag(customMetadata, "platform"), Unknown),
      arch        |-> ResolveArch(customMetadata, Unknown),
      uploadDate  |-> toISOString(object.uploaded),
      size        |-> object.size,
      filename    |-> StoredFilename(customMetadata,
                          OrElse(Pop(Split(object.key, "/")), object.key)),
      checksum    |-> Tag(customMetadata, "checksum"),
      description |-> Tag(customMetadata, "description") ]

\* the last segment alone taken as the file name
LastPartOnly(pathParts) == <<pathParts[Len(pathParts)]>>

\* const [product, version, platformArch, ...filenameParts] = pathParts
FilenameParts(pathParts) == SubSeq(pathParts, 4, Len(pathParts))

parseReleaseMetadata(object) ==
    LET customMetadata == object.customMetadata
        pathParts      == Split(object.key, "/")
    IN  IF object.uploaded = Absent
        THEN Null   \* object.uploaded.toISOString() throws, the catch returns null
        ELSE IF IsShortKey(pathParts)
        THEN FallbackMetadata(object, customMetadata)
        ELSE LET product       == pathParts[1]
                 version       == pathParts[2]
                 platformArch  == Split(pathParts[3], "-")
                 platform      == platformArch[1]
                 arch          == IF Len(platformArch) >= 2
                                  THEN platformArch[2] ELSE Undefined
                 filenameParts == FilenameParts(pathParts)
             IN  [ product     |-> ResolveProduct(customMetadata, product),
                   version     |-> OrElse(Tag(customMetadata, "version"), version),
                   platform    |-> OrElse(Tag(customMetadata, "platform"), platform),
                   arch        |-> ResolveArch(customMetadata, arch),
                   uploadDate  |-> toISOString(object.uploaded),
                   size        |-> object.size,
                   filename    |-> StoredFilename(customMetadata,
                                       Join(filenameParts, "/")),
                   checksum    |-> Tag(customMetadata, "checksum"),
                   description |-> Tag(customMetadata, "description") ]

----------------------------------------------------------------------------
(* Inputs of the parser check *)

\* most segments of a key
MaxSegs == 4

\* the segments keys are built from: empty, plain, one dash, two dashes
KeySegs ==
    { <<>>, <<"a">>, <<"b">>, <<"a", "-", "b">>, <<"a", "-", "b", "-", "a">> }

ParseKeys ==
    { Join(parts, "/") : parts \in UNION { [1..n -> KeySegs] : n \in 1..MaxSegs } }

TagNames == {"product", "version", "platform", "arch"}

\* the value a tag carries when it is set: one per field, so that fields
\* cannot be mistaken for each other
TagValue(name) ==
    CASE name = "product"  -> <<"q">>
      [] name = "version"  -> <<"w">>
      [] name = "platform" -> <<"o">>
      [] name = "arch"     -> <<"r">>
      [] name = "size"       -> <<"9">>
      [] name = "uploadDate" -> <<"d">>
      [] name = "filename"   -> <<"n">>

\* tags named like the fields that come from storage and from the key
StorageFieldNames == {"size", "uploadDate", "filename"}

\* no tags at all, or each of the four tags empty or set, or tags named
\* size, uploadDate and filename, alone or beside the four
ParseTagMaps ==
    { <<>> } \cup
    { [n \in TagNames |-> IF n \in set THEN TagValue(n) ELSE <<>>] :
        set \in SUBSET TagNames } \cup
    { [n \in StorageFieldNames |-> TagValue(n)],
      [n \in TagNames \cup StorageFieldNames |-> TagValue(n)] }

\* 1 day, 1 hour, 1 minute, 1 second and 1 ms after the epoch
LaterDate == Date(90061001)

ParseObjects ==
    [ key : ParseKeys, customMetadata : ParseTagMaps,
      size : {1, 2}, uploaded : {Absent, Date(1), LaterDate} ]

\* names without '/', and names without '/' and '-'
ConvNames   == { <<>>, <<"a">>, <<"b", "-", "a">> }
ConvNoDash  == { <<>>, <<"a">>, <<"b">> }
ConvFiles   == { <<>>, <<"f">>, <<"d", "/", "f">>, <<"f", "-", "g">> }

Convs ==
    [ product : ConvNames, version : ConvNames,
      platform : ConvNoDash, arch : ConvNoDash, filename : ConvFiles ]

\* the key convention of the README: product/version/platform-arch/filename
BuildKey(c) ==
    c.product \o <<"/">> \o c.version \o <<"/">>
        \o c.platform \o <<"-">> \o c.arch \o <<"/">> \o c.filename

NoConv    == [none |-> TRUE]
NotCalled == [called |-> FALSE]
NoObject  == [none |-> TRUE]
NoResponse == [kind |-> "none"]
NoPage == [open |-> FALSE]

InitParse ==
    /\ store = <<>>
    /\ resp = NoResponse
    /\ calls = <<>>
    /\ requests = <<>>
    /\ page = NoPage
    /\ ret = NotCalled
    /\ \/ /\ conv = NoConv
          /\ arg \in ParseObjects
       \/ /\ conv \in Convs
          /\ arg = [ key |-> BuildKey(conv), customMetadata |-> <<>>,
                     size |-> 1, uploaded |-> Date(1) ]

\* one call of parseReleaseMetadata
Parse ==
    /\ ret = NotCalled
    /\ ret' = parseReleaseMetadata(arg)
    /\ UNCHANGED <<store, resp, arg, conv, calls, requests, page>>

NextParse == Parse

SpecParse == InitParse /\ [][NextParse]_vars

----------------------------------------------------------------------------
(* formatFileSize *)

DecimalDigits == <<"0", "1", "2", "3", "4", "5", "6", "7", "8", "9">>

\* Number.prototype.toString() of a non-negative integer
RECURSIVE DecimalString(_)
DecimalString(n) ==
    IF n < 10 THEN <<DecimalDigits[n + 1]>>
    ELSE DecimalString(n \div 10) \o <<DecimalDigits[(n % 10) + 1]>>

\* Number.prototype.toString() of hundredths / 100: the fraction is
\* printed without trailing zeros
HundredthsString(hundredths) ==
    DecimalString(hundredths \div 100)
        \o (IF hundredths % 100 = 0 THEN <<>>
            ELSE IF hundredths % 10 = 0
            THEN <<".", DecimalDigits[((hundredths % 100) \div 10) + 1]>>
            ELSE <<".", DecimalDigits[((hundredths % 100) \div 10) + 1],
                        DecimalDigits[(hundredths % 10) + 1]>>)

\* A byte count is written in base 1024, most significant digit first and
\* without leading zeros (0 is the empty sequence), so that counts of
\* 1024^4 and more can be told apart.
Base == 1024

RECURSIVE Digits1024(_)
Digits1024(n) ==
    IF n = 0 THEN <<>> ELSE Digits1024(n \div Base) \o <<n % Base>>

sizes == << <<"B">>, <<"K", "B">>, <<"M", "B">>, <<"G", "B">>, <<"T", "B">> >>

\* ' ' + undefined
UndefinedText == <<"u", "n", "d", "e", "f", "i", "n", "e", "d">>

\* sizes[i]: undefined past the end of the array
UnitAt(i) == IF i + 1 <= Len(sizes) THEN sizes[i + 1] ELSE UndefinedText

\* a count of 1024^5 - 3 or more and below 1024^5: in IEEE doubles its
\* Math.log is the same number as Math.log(1024^5), so the quotient by
\* Math.log(1024) is 5 and not a little less
LogRoundsUp(bytes) ==
    /\ Len(bytes) = 5
    /\ \A k \in 1..4 : bytes[k] = Base - 1
    /\ bytes[5] >= Base - 3

\* Math.floor(Math.log(bytes) / Math.log(1024)) for bytes >= 1
FloorLog1024(bytes) ==
    IF LogRoundsUp(bytes) THEN Len(bytes) ELSE Len(bytes) - 1

\* floor(200 * f) for the fraction f written by the digits after the point
RECURSIVE TwoHundredTimes(_)
TwoHundredTimes(fraction) ==
    IF fraction = <<>> THEN 0
    ELSE (200 * Head(fraction) + TwoHundredTimes(Tail(fraction))) \div Base

\* Math.round(bytes / Math.pow(1024, i) * 100) for i the number of digits
\* less one (the leading digit is the integer part, the other digits the
\* fraction) or the number of digits (all digits are the fraction)
RoundedHundredths(bytes, i) ==
    IF i = Len(bytes) - 1
    THEN 100 * Head(bytes) + (TwoHundredTimes(Tail(bytes)) + 1) \div 2
    ELSE (TwoHundredTimes(bytes) + 1) \div 2

formatFileSize(bytes) ==
    IF bytes = <<>> THEN <<"0", " ", "B">>
    ELSE LET i == FloorLog1024(bytes)
         IN  HundredthsString(RoundedHundredths(bytes, i))
                \o <<" ">> \o UnitAt(i)

----------------------------------------------------------------------------
(* The listing handlers *)

\* String.prototype.startsWith, the test of R2's list({ prefix })
StartsWith(s, prefix) ==
    Len(s) >= Len(prefix) /\ SubSeq(s, 1, Len(prefix)) = prefix

RECURSIVE SelectObjects(_, _)
SelectObjects(objects, prefix) ==
    IF objects = <<>> THEN <<>>
    ELSE (IF StartsWith(Head(objects).key, prefix) THEN <<Head(objects)>> ELSE <<>>)
             \o SelectObjects(Tail(objects), prefix)

\* RELEASES.list() and RELEASES.list({ prefix }): listed.objects
R2List(prefix) == SelectObjects(store, prefix)

\* the entry keyed by the parsed filename instead of the object's key
ReleaseFileKeyedByFilename(object, metadata) ==
    [ key |-> metadata.filename, size |-> object.size,
      uploaded |-> object.uploaded, metadata |-> metadata ]

\* releases.push({ key, size, uploaded, metadata })
ReleaseFile(object, metadata) ==
    [ key |-> object.key, size |-> object.size,
      uploaded |-> object.uploaded, metadata |-> metadata ]

\* a loop that gives up at the first object that does not parse
RECURSIVE CollectUntilUnparsed(_)
CollectUntilUnparsed(objects) ==
    IF objects = <<>> \/ parseReleaseMetadata(Head(objects)) = Null THEN <<>>
    ELSE <<ReleaseFile(Head(objects), parseReleaseMetadata(Head(objects)))>>
             \o CollectUntilUnparsed(Tail(objects))

\* the loop of GET /api/releases: one ReleaseFile per object that parses
RECURSIVE CollectReleases(_)
CollectReleases(objects) ==
    IF objects = <<>> THEN <<>>
    ELSE LET metadata == parseReleaseMetadata(Head(objects))
         IN  (IF metadata # Null
              THEN <<ReleaseFile(Head(objects), metadata)>> ELSE <<>>)
                 \o CollectReleases(Tail(objects))

\* the filter of GET /api/releases/:product taken from the key's first segment
KeepByKeyPrefix(object, metadata, product) ==
    metadata # Null /\ Split(object.key, "/")[1] = product

\* metadata && metadata.product === product
KeepForProduct(object, metadata, product) ==
    metadata # Null /\ metadata.product = product

\* the loop of GET /api/releases/:product
RECURSIVE CollectProductReleases(_, _)
CollectProductReleases(objects, product) ==
    IF objects = <<>> THEN <<>>
    ELSE LET metadata == parseReleaseMetadata(Head(objects))
         IN  (IF KeepForProduct(Head(objects), metadata, product)
              THEN <<ReleaseFile(Head(objects), metadata)>> ELSE <<>>)
                 \o CollectProductReleases(Tail(objects), product)

\* oldest first
compareOldestFirst(a, b) == getTime(a.uploaded) - getTime(b.uploaded)

\* the comparator (a, b) => b.uploaded.getTime() - a.uploaded.getTime()
compareUploaded(a, b) == getTime(b.uploaded) - getTime(a.uploaded)

\* Array.prototype.sort is stable: x goes after every element of the sorted
\* prefix that the comparator does not put behind it
InsertSorted(sorted, x) ==
    LET before == { i \in 1..Len(sorted) : compareUploaded(sorted[i], x) <= 0 }
        n      == Cardinality(before)
    IN  SubSeq(sorted, 1, n) \o <<x>> \o SubSeq(sorted, n + 1, Len(sorted))

RECURSIVE SortReleases(_)
SortReleases(releases) ==
    IF releases = <<>> THEN <<>>
    ELSE InsertSorted(SortReleases(SubSeq(releases, 1, Len(releases) - 1)),
                      releases[Len(releases)])

\* a call of RELEASES.list, with the prefix passed and whether it returned
ListCall(prefix, ok) == [op |-> "list", prefix |-> prefix, ok |-> ok]

\* the error swallowed: an empty successful answer
FailureAsEmpty(kind) ==
    [ kind |-> kind, status |-> 200, success |-> TRUE, count |-> 0,
      releases |-> <<>> ]

\* the response when the list call throws: the catch block's 500
Failure(kind) == [kind |-> kind, status |-> 500, success |-> FALSE]

----------------------------------------------------------------------------
(* GET /api/stats *)

Constructor == <<"c", "o", "n", "s", "t", "r", "u", "c", "t", "o", "r">>

\* names every object literal inherits a member for from Object.prototype
ObjectPrototypeProps == { Constructor }

\* a value of stats.platforms: a count, or the string that adding 1 to an
\* inherited function gives
Number(n) == [number |-> n]
NotANumber == [string |-> TRUE]

\* stats.products after one parsed object.  An inherited member is truthy,
\* so no own entry is made and the increments land on the inherited member.
CountProduct(products, product, size) ==
    LET made == IF product \in DOMAIN products \/ product \in ObjectPrototypeProps
                THEN products
                ELSE [p \in DOMAIN products \cup {product} |->
                        IF p = product THEN [count |-> 0, size |-> 0]
                        ELSE products[p]]
    IN  IF product \in DOMAIN made
        THEN [made EXCEPT ![product] =
                 [count |-> @.count + 1, size |-> @.size + size]]
        ELSE made

\* stats.platforms[platform] = (stats.platforms[platform] || 0) + 1
CountPlatform(platforms, platform) ==
    LET next == IF platform \in DOMAIN platforms
                THEN IF platforms[platform] = NotANumber THEN NotANumber
                     ELSE Number(platforms[platform].number + 1)
                ELSE IF platform \in ObjectPrototypeProps THEN NotANumber
                ELSE Number(1)
    IN  [p \in DOMAIN platforms \cup {platform} |->
            IF p = platform THEN next ELSE platforms[p]]

\* if (!stats.latestUpload || object.uploaded > stats.latestUpload)
TrackLatest(latestUpload, uploaded) ==
    IF latestUpload = Absent \/ getTime(uploaded) > getTime(latestUpload)
    THEN uploaded ELSE latestUpload

EmptyStats ==
    [ totalReleases |-> 0, totalSize |-> 0, products |-> <<>>,
      platforms |-> <<>>, latestUpload |-> Absent ]

\* the loop of GET /api/stats over listed.objects
RECURSIVE Accumulate(_, _)
Accumulate(stats, objects) ==
    IF objects = <<>> THEN stats
    ELSE LET object   == Head(objects)
             metadata == parseReleaseMetadata(object)
         IN  Accumulate(
                 IF metadata = Null THEN stats
                 ELSE [ totalReleases |-> stats.totalReleases + 1,
                        totalSize     |-> stats.totalSize + object.size,
                        products      |-> CountProduct(stats.products,
                                                       metadata.product, object.size),
                        platforms     |-> CountPlatform(stats.platforms,
                                                        metadata.platform),
                        latestUpload  |-> TrackLatest(stats.latestUpload,
                                                      object.uploaded) ],
                 Tail(objects))

----------------------------------------------------------------------------
(* Percent-encoding and GET /download/* *)

\* the printable ASCII characters, code 32 (space) first; QUOT, BSOL and
\* GRAVE stand for the double quote, the backslash and the grave accent
Ascii ==
    << " ", "!", "QUOT", "#", "$", "%", "&", "'", "(", ")", "*", "+",
       ",", "-", ".", "/", "0", "1", "2", "3", "4", "5", "6", "7",
       "8", "9", ":", ";", "<", "=", ">", "?", "@", "A", "B", "C",
       "D", "E", "F", "G", "H", "I", "J", "K", "L", "M", "N", "O",
       "P", "Q", "R", "S", "T", "U", "V", "W", "X", "Y", "Z", "[",
       "BSOL", "]", "^", "_", "GRAVE", "a", "b", "c", "d", "e", "f", "g",
       "h", "i", "j", "k", "l", "m", "n", "o", "p", "q", "r", "s",
       "t", "u", "v", "w", "x", "y", "z", "{", "|", "}", "~" >>

AsciiBase == 32

\* the characters encodeURIComponent leaves as they are
Unreserved ==
    { "A", "B", "C", "D", "E", "F", "G", "H", "I", "J", "K", "L", "M",
      "N", "O", "P", "Q", "R", "S", "T", "U", "V", "W", "X", "Y", "Z",
      "a", "b", "c", "d", "e", "f", "g", "h", "i", "j", "k", "l", "m",
      "n", "o", "p", "q", "r", "s", "t", "u", "v", "w", "x", "y", "z",
      "0", "1", "2", "3", "4", "5", "6", "7", "8", "9",
      "-", "_", ".", "!", "~", "*", "'", "(", ")" }

HexDigits ==
    << "0", "1", "2", "3", "4", "5", "6", "7",
       "8", "9", "A", "B", "C", "D", "E", "F" >>

LowerHex == << "a", "b", "c", "d", "e", "f" >>

CharCode(c) == AsciiBase - 1 + CHOOSE i \in 1..Len(Ascii) : Ascii[i] = c

IsHex(c) ==
    \/ \E i \in 1..Len(HexDigits) : HexDigits[i] = c
    \/ \E i \in 1..Len(LowerHex) : LowerHex[i] = c

HexValue(c) ==
    IF \E i \in 1..Len(HexDigits) : HexDigits[i] = c
    THEN (CHOOSE i \in 1..Len(HexDigits) : HexDigits[i] = c) - 1
    ELSE 9 + CHOOSE i \in 1..Len(LowerHex) : LowerHex[i] = c

\* encodeURIComponent on ASCII text: %XX for every character not unreserved
RECURSIVE encodeURIComponent(_)
encodeURIComponent(s) ==
    IF s = <<>> THEN <<>>
    ELSE (IF Head(s) \in Unreserved THEN <<Head(s)>>
          ELSE << "%", HexDigits[(CharCode(Head(s)) \div 16) + 1],
                       HexDigits[(CharCode(Head(s)) % 16) + 1] >>)
             \o encodeURIComponent(Tail(s))

\* the result of a decode: the text, or the URIError thrown
Decoded(text) == [ok |-> TRUE, value |-> text]
URIError == [ok |-> FALSE]

\* decodeURI: the escapes of reserved characters such as %2F are left alone
RECURSIVE DecodeKeepingReserved(_)
DecodeKeepingReserved(s) ==
    IF s = <<>> THEN Decoded(<<>>)
    ELSE IF Head(s) # "%"
    THEN LET rest == DecodeKeepingReserved(Tail(s))
         IN  IF rest.ok THEN Decoded(<<Head(s)>> \o rest.value) ELSE URIError
    ELSE IF Len(s) < 3 \/ ~IsHex(s[2]) \/ ~IsHex(s[3]) THEN URIError
    ELSE LET byte == 16 * HexValue(s[2]) + HexValue(s[3])
             rest == DecodeKeepingReserved(SubSeq(s, 4, Len(s)))
         IN  IF byte < AsciiBase \/ byte >= AsciiBase + Len(Ascii) \/ ~rest.ok
             THEN URIError
             ELSE IF Ascii[byte - AsciiBase + 1] \in {"/", "?", "#", "&", "=", "+"}
             THEN Decoded(SubSeq(s, 1, 3) \o rest.value)
             ELSE Decoded(<<Ascii[byte - AsciiBase + 1]>> \o rest.value)

\* decodeURIComponent on text whose escapes are printable ASCII: a '%' not
\* followed by two hex digits, or a byte that is no complete UTF-8
\* character on its own, throws URIError
RECURSIVE decodeURIComponent(_)
decodeURIComponent(s) ==
    IF s = <<>> THEN Decoded(<<>>)
    ELSE IF Head(s) # "%"
    THEN LET rest == decodeURIComponent(Tail(s))
         IN  IF rest.ok THEN Decoded(<<Head(s)>> \o rest.value) ELSE URIError
    ELSE IF Len(s) < 3 \/ ~IsHex(s[2]) \/ ~IsHex(s[3]) THEN URIError
    ELSE LET byte == 16 * HexValue(s[2]) + HexValue(s[3])
             rest == decodeURIComponent(SubSeq(s, 4, Len(s)))
         IN  IF byte < AsciiBase \/ byte >= AsciiBase + Len(Ascii) \/ ~rest.ok
             THEN URIError
             ELSE Decoded(<<Ascii[byte - AsciiBase + 1]>> \o rest.value)

\* the key looked up as it stands in the path, not decoded
DownloadTargetRaw(key) == Decoded(key)

\* const decodedKey = decodeURIComponent(key)
DownloadTarget(key) == decodeURIComponent(key)

\* a call of RELEASES.get, with the key passed and whether it returned
GetCall(key, ok) == [op |-> "get", key |-> key, ok |-> ok]

\* RELEASES.get(key): the object stored under the key, or null.  The body
\* is the stream of the bytes stored under that key, size bytes long.
R2Get(key) ==
    IF \E i \in 1..Len(store) : store[i].key = key
    THEN LET object == store[CHOOSE i \in 1..Len(store) : store[i].key = key]
         IN  [ body           |-> [streamOf |-> object.key, length |-> object.size],
               size           |-> object.size,
               httpEtag       |-> <<"QUOT">> \o object.key \o <<"QUOT">>,
               customMetadata |-> object.customMetadata ]
    ELSE Null

OctetStream == <<"o", "c", "t", "e", "t">>
DownloadName == <<"d", "o", "w", "n", "l", "o", "a", "d">>

\* the response of GET /download/<key>
DownloadResponse(key, getOk) ==
    LET decodedKey == DownloadTarget(key)
    IN  IF ~decodedKey.ok \/ ~getOk
        THEN Failure("download") @@ [path |-> key]
        ELSE LET object == R2Get(decodedKey.value)
             IN  IF object = Null
                 THEN [ kind |-> "download", path |-> key, status |-> 404,
                        success |-> FALSE, key |-> decodedKey.value ]
                 ELSE [ kind |-> "download", path |-> key, status |-> 200,
                        body |-> object.body,
                        headers |->
                          [ ContentType        |-> OctetStream,
                            ContentLength      |-> DecimalString(object.size),
                            ContentDisposition |->
                                OrElse(Pop(Split(decodedKey.value, "/")),
                                       DownloadName),
                            ETag               |-> object.httpEtag,
                            custom             |-> object.customMetadata ] ]

\* a get that failed is tried once more
DownloadCallsWithRetry(key, getOk) ==
    IF ~DownloadTarget(key).ok THEN <<>>
    ELSE IF getOk THEN <<GetCall(DownloadTarget(key).value, TRUE)>>
    ELSE << GetCall(DownloadTarget(key).value, FALSE),
            GetCall(DownloadTarget(key).value, TRUE) >>

\* the calls GET /download/<key> makes: none when the key does not decode
DownloadCalls(key, getOk) ==
    IF DownloadTarget(key).ok
    THEN <<GetCall(DownloadTarget(key).value, getOk)>>
    ELSE <<>>

----------------------------------------------------------------------------
(* The bucket and the requests *)

\* most objects in the bucket
MaxObjects == 2

\* most objects of a listed batch in the listing check
MaxBatch == 3

KeyA     == <<"a", "/", "v", "/", "l", "-", "x", "/", "f">>
KeyB     == <<"b", "/", "v", "/", "m", "-", "y", "/", "g">>
KeyShort == <<"f">>
KeyCtor  == Constructor \o <<"/", "v", "/", "l", "-", "x", "/", "f">>

StoreKeys == { KeyA, KeyB, KeyShort, KeyCtor }

\* no tags, or the release reassigned to product b and platform m by tags
Reassigned == [product |-> <<"b">>, platform |-> <<"m">>]
StoreTagMaps == { <<>>, Reassigned }

StoreSizes == { 1, 2 }

\* an object without uploaded is the one input on which parseReleaseMetadata
\* throws and returns null
StoreDates == { Absent, Date(1), Date(2) }

StoreObjects ==
    [ key : StoreKeys, customMetadata : StoreTagMaps,
      size : StoreSizes, uploaded : StoreDates ]

\* the :product parameters requested
Products == { <<"a">>, <<"b">> }

HasKey(objects, key) == \E i \in 1..Len(objects) : objects[i].key = key

Init ==
    /\ store = <<>>
    /\ resp = NoResponse
    /\ arg = NoObject
    /\ conv = NoConv
    /\ ret = NotCalled
    /\ calls = <<>>
    /\ requests = <<>>
    /\ page = NoPage

\* a producer uploads an object under a new key
Put ==
    /\ resp = NoResponse
    /\ Len(store) < MaxObjects
    /\ \E object \in StoreObjects :
          /\ ~HasKey(store, object.key)
          /\ store' = Append(store, object)
    /\ UNCHANGED <<resp, arg, conv, ret, calls, requests, page>>

\* an object is removed from the bucket
Delete ==
    /\ resp = NoResponse
    /\ \E i \in 1..Len(store) :
          store' = SubSeq(store, 1, i - 1) \o SubSeq(store, i + 1, Len(store))
    /\ UNCHANGED <<resp, arg, conv, ret, calls, requests, page>>

\* RELEASES.list and RELEASES.get only read: the bucket after a call
AfterCallRemoving(bucket, call) ==
    IF call.op = "get"
    THEN SelectSeq(bucket, LAMBDA object : object.key # call.key)
    ELSE bucket

AfterCall(bucket, call) == bucket

\* the bucket after the calls of one request
AfterCalls(bucket, made) ==
    IF made = <<>> THEN bucket ELSE AfterCall(bucket, made[1])

\* the answer of GET /api/releases to the objects a list call returned
ReleasesResponse(objects) ==
    LET releases == SortReleases(CollectReleases(objects))
    IN  [ kind |-> "releases", status |-> 200, success |-> TRUE,
          count |-> Len(releases), releases |-> releases ]

\* the answer of GET /api/releases/:product
ProductResponse(product, objects) ==
    LET releases == SortReleases(CollectProductReleases(objects, product))
    IN  [ kind |-> "product", status |-> 200, success |-> TRUE,
          product |-> product,
          count |-> Len(releases), releases |-> releases ]

\* the answer of GET /api/stats of src/src/index.ts
StatsResponse(objects) ==
    LET stats == Accumulate(EmptyStats, objects)
    IN  [ kind |-> "stats", status |-> 200, success |-> TRUE,
          stats |->
            [ totalReleases      |-> stats.totalReleases,
              totalSize          |-> stats.totalSize,
              products           |-> stats.products,
              platforms          |-> stats.platforms,
              latestUpload       |-> stats.latestUpload,
              totalSizeFormatted |->
                  formatFileSize(Digits1024(stats.totalSize)) ] ]

\* the answer of GET /api/stats of src/unnamed/part_000: the same loop,
\* but its stats object has neither latestUpload nor totalSizeFormatted
StatsVariantResponse(objects) ==
    LET stats == Accumulate(EmptyStats, objects)
    IN  [ kind |-> "stats", status |-> 200, success |-> TRUE,
          stats |->
            [ totalReleases |-> stats.totalReleases,
              totalSize     |-> stats.totalSize,
              products      |-> stats.products,
              platforms     |-> stats.platforms ] ]

\* GET /api/releases
GetReleases ==
    /\ resp = NoResponse
    /\ \E listOk \in BOOLEAN :
          /\ calls' = <<ListCall(<<>>, listOk)>>
          /\ resp' = IF listOk THEN ReleasesResponse(R2List(<<>>))
                              ELSE Failure("releases")
    /\ store' = AfterCalls(store, calls')
    /\ UNCHANGED <<arg, conv, ret, requests, page>>

\* GET /api/releases/:product
GetProductReleases ==
    /\ resp = NoResponse
    /\ \E product \in Products, listOk \in BOOLEAN :
          /\ calls' = <<ListCall(product \o <<"/">>, listOk)>>
          /\ resp' = IF listOk
                     THEN ProductResponse(product, R2List(product \o <<"/">>))
                     ELSE Failure("product")
    /\ store' = AfterCalls(store, calls')
    /\ UNCHANGED <<arg, conv, ret, requests, page>>

\* GET /api/stats of src/src/index.ts
GetStats ==
    /\ resp = NoResponse
    /\ \E listOk \in BOOLEAN :
          /\ calls' = <<ListCall(<<>>, listOk)>>
          /\ resp' = IF listOk THEN StatsResponse(R2List(<<>>))
                              ELSE Failure("stats")
    /\ store' = AfterCalls(store, calls')
    /\ UNCHANGED <<arg, conv, ret, requests, page>>

\* GET /api/stats of src/unnamed/part_000
GetStatsVariant ==
    /\ resp = NoResponse
    /\ \E listOk \in BOOLEAN :
          /\ calls' = <<ListCall(<<>>, listOk)>>
          /\ resp' = IF listOk THEN StatsVariantResponse(R2List(<<>>))
                              ELSE Failure("stats")
    /\ store' = AfterCalls(store, calls')
    /\ UNCHANGED <<arg, conv, ret, requests, page>>

\* the paths requested after /download/: the link of each key, and a
\* path that is no valid percent-encoding
DownloadPaths == { encodeURIComponent(k) : k \in StoreKeys } \cup { <<"%">> }

\* GET /download/*
Download ==
    /\ resp = NoResponse
    /\ \E key \in DownloadPaths, getOk \in BOOLEAN :
          /\ calls' = DownloadCalls(key, getOk)
          /\ resp' = DownloadResponse(key, getOk)
    /\ store' = AfterCalls(store, calls')
    /\ UNCHANGED <<arg, conv, ret, requests, page>>

\* GET /: the page is a constant text, the bucket is not called
GetPage ==
    /\ resp = NoResponse
    /\ calls' = <<>>
    /\ resp' = [kind |-> "page", status |-> 200]
    /\ store' = AfterCalls(store, calls')
    /\ UNCHANGED <<arg, conv, ret, requests, page>>

\* GET /health
GetHealth ==
    /\ resp = NoResponse
    /\ calls' = <<>>
    /\ resp' = [kind |-> "health", status |-> 200]
    /\ store' = AfterCalls(store, calls')
    /\ UNCHANGED <<arg, conv, ret, requests, page>>

\* the response is sent; the worker keeps nothing of the request
Respond ==
    /\ resp # NoResponse
    /\ resp' = NoResponse
    /\ calls' = <<>>
    /\ UNCHANGED <<store, arg, conv, ret, requests, page>>

Next ==
    \/ Put
    \/ Delete
    \/ GetReleases
    \/ GetProductReleases
    \/ GetStats
    \/ GetStatsVariant
    \/ Download
    \/ GetPage
    \/ GetHealth
    \/ Respond

Spec == Init /\ [][Next]_vars

\* the listing check: the bucket holds one of the batches below and only
\* the two listing handlers run; the keys all lie under a/ so that both
\* handlers see the whole batch
BatchKeys ==
    { <<"a", "/", "v", "/", "l", "-", "x", "/">> \o <<c>> : c \in {"f", "g", "h", "i"} }

BatchObjects ==
    [ key : BatchKeys, customMetadata : { <<>> }, size : { 1 }, uploaded : StoreDates ]

Batches ==
    { b \in UNION { [1..n -> BatchObjects] : n \in 0..MaxBatch } :
        \A i, j \in 1..Len(b) : i # j => b[i].key # b[j].key }

InitList ==
    /\ store \in Batches
    /\ resp = NoResponse
    /\ arg = NoObject
    /\ conv = NoConv
    /\ ret = NotCalled
    /\ calls = <<>>
    /\ requests = <<>>
    /\ page = NoPage

NextList == GetReleases \/ GetProductReleases

SpecList == InitList /\ [][NextList]_vars

----------------------------------------------------------------------------
(* The links of the page followed, for keys with reserved characters *)

MaxKeyLen == 3

\* characters of a key: plain, the separator, the escape character, the
\* characters of an escape, and a space
UrlChars == { "x", "/", "%", "2", "F", " " }

RECURSIVE KeysUpTo(_)
KeysUpTo(n) ==
    IF n = 0 THEN { <<>> }
    ELSE KeysUpTo(n - 1)
            \cup { k \o <<c>> : k \in KeysUpTo(n - 1), c \in UrlChars }

UrlKeys == KeysUpTo(MaxKeyLen) \ { <<>> }

InitUrl ==
    /\ \E key \in UrlKeys, size \in StoreSizes :
          store = << [ key |-> key, customMetadata |-> <<>>,
                       size |-> size, uploaded |-> Date(1) ] >>
    /\ resp = NoResponse
    /\ arg = NoObject
    /\ conv = NoConv
    /\ ret = NotCalled
    /\ calls = <<>>
    /\ requests = <<>>
    /\ page = NoPage

\* <a href="/download/${encodeURIComponent(release.key)}"> of a listed
\* release is followed
FollowLink ==
    /\ resp = NoResponse
    /\ \E i \in 1..Len(store), getOk \in BOOLEAN :
          /\ parseReleaseMetadata(store[i]) # Null
          /\ calls' = DownloadCalls(encodeURIComponent(store[i].key), getOk)
          /\ resp' = DownloadResponse(encodeURIComponent(store[i].key), getOk)
    /\ store' = AfterCalls(store, calls')
    /\ UNCHANGED <<arg, conv, ret, requests, page>>

NextUrl == FollowLink

SpecUrl == InitUrl /\ [][NextUrl]_vars

----------------------------------------------------------------------------
(* formatFileSize applied to byte counts up to 1024^MaxDigits - 1 *)

MaxDigits == 6

\* digits of a byte count: the least, the greatest, and those about the
\* rounding of a half
SomeDigits == {0, 1, 512, 1023}

\* 1536 and 1024^3
Examples == { <<1, 512>>, <<1, 0, 0, 0>> }

RECURSIVE CountsOfLength(_)
CountsOfLength(n) ==
    IF n = 0 THEN { <<>> }
    ELSE { <<d>> \o c : d \in SomeDigits, c \in CountsOfLength(n - 1) }

\* 0 and the counts without a leading zero
ByteCounts ==
    { c \in UNION { CountsOfLength(n) : n \in 0..MaxDigits } :
        c = <<>> \/ Head(c) # 0 } \cup Examples

\* no text returned yet
NoText == <<>>

InitFormat ==
    /\ arg \in ByteCounts
    /\ ret = NoText
    /\ store = <<>>
    /\ resp = NoResponse
    /\ conv = NoConv
    /\ calls = <<>>
    /\ requests = <<>>
    /\ page = NoPage

\* ret = formatFileSize(arg)
Format ==
    /\ ret = NoText
    /\ ret' = formatFileSize(arg)
    /\ UNCHANGED <<store, resp, arg, conv, calls, requests, page>>

NextFormat == Format

SpecFormat == InitFormat /\ [][NextFormat]_vars

----------------------------------------------------------------------------
(* List calls that return one page of the matching objects *)

\* most objects in the page a list call returns
MaxLimit == 2

\* RELEASES.list(): at most limit of the matching objects, and whether
\* more of them are left for a call with the cursor
R2ListPage(prefix, limit) ==
    LET matching == R2List(prefix)
    IN  [ objects   |-> SubSeq(matching, 1,
                               IF Len(matching) < limit THEN Len(matching)
                                                        ELSE limit),
          truncated |-> Len(matching) > limit ]

\* a list call that returned a page
PagedListCall(prefix, listed) ==
    [ op |-> "list", prefix |-> prefix, ok |-> TRUE,
      truncated |-> listed.truncated ]

\* GET /api/releases when the bucket answers with a page
GetReleasesPaged ==
    /\ resp = NoResponse
    /\ \E limit \in 1..MaxLimit :
          LET listed == R2ListPage(<<>>, limit)
          IN  /\ calls' = <<PagedListCall(<<>>, listed)>>
              /\ resp' = ReleasesResponse(listed.objects)
    /\ store' = AfterCalls(store, calls')
    /\ UNCHANGED <<arg, conv, ret, requests, page>>

\* GET /api/releases/:product when the bucket answers with a page
GetProductReleasesPaged ==
    /\ resp = NoResponse
    /\ \E product \in Products, limit \in 1..MaxLimit :
          LET listed == R2ListPage(product \o <<"/">>, limit)
          IN  /\ calls' = <<PagedListCall(product \o <<"/">>, listed)>>
              /\ resp' = ProductResponse(product, listed.objects)
    /\ store' = AfterCalls(store, calls')
    /\ UNCHANGED <<arg, conv, ret, requests, page>>

\* GET /api/stats when the bucket answers with a page
GetStatsPaged ==
    /\ resp = NoResponse
    /\ \E limit \in 1..MaxLimit :
          LET listed == R2ListPage(<<>>, limit)
          IN  /\ calls' = <<PagedListCall(<<>>, listed)>>
              /\ resp' = StatsResponse(listed.objects)
    /\ store' = AfterCalls(store, calls')
    /\ UNCHANGED <<arg, conv, ret, requests, page>>

NextTruncated == GetReleasesPaged \/ GetProductReleasesPaged \/ GetStatsPaged

SpecTruncated == InitList /\ [][NextTruncated]_vars

----------------------------------------------------------------------------
(* Requests served concurrently while producers write to the bucket *)

\* most requests in flight at once
MaxRequests == 2

\* the endpoints that serve catalog data
Endpoints ==
    [ kind : {"releases", "stats"}, product : { <<>> } ]
        \cup [ kind : {"product"}, product : { <<"a">> } ]

\* the prefix of the list call an endpoint makes
PrefixOf(endpoint) ==
    IF endpoint.kind = "product" THEN endpoint.product \o <<"/">> ELSE <<>>

\* what a list call resolved to, or that it was rejected
Listed(objects) == [ok |-> TRUE, objects |-> objects]
Rejected == [ok |-> FALSE]

\* the response an endpoint builds from the result of its list call
Answer(endpoint, result) ==
    IF ~result.ok THEN Failure(endpoint.kind)
    ELSE CASE endpoint.kind = "releases" -> ReleasesResponse(result.objects)
           [] endpoint.kind = "product"  ->
                  ProductResponse(endpoint.product, result.objects)
           [] endpoint.kind = "stats"    -> StatsResponse(result.objects)

Idle == [phase |-> "idle"]

\* a result kept from an earlier request to the same endpoint, if any
ResultCached(inFlight, slot, result) ==
    IF \E other \in DOMAIN inFlight :
          /\ other # slot
          /\ inFlight[other].phase = "done"
          /\ inFlight[other].endpoint = inFlight[slot].endpoint
    THEN inFlight[CHOOSE other \in DOMAIN inFlight :
                     /\ other # slot
                     /\ inFlight[other].phase = "done"
                     /\ inFlight[other].endpoint = inFlight[slot].endpoint].result
    ELSE result

\* const listed = await c.env.RELEASES.list(): a local of the handler
ResultUsed(inFlight, slot, result) == result

\* the objects producers upload during the requests
SharedObjects ==
    { [ key |-> KeyA, customMetadata |-> <<>>, size |-> 1, uploaded |-> Date(1) ],
      [ key |-> KeyB, customMetadata |-> <<>>, size |-> 2, uploaded |-> Date(2) ] }

InitConcurrent ==
    /\ store = <<>>
    /\ resp = NoResponse
    /\ arg = NoObject
    /\ conv = NoConv
    /\ ret = NotCalled
    /\ calls = <<>>
    /\ requests = [slot \in 1..MaxRequests |-> Idle]
    /\ page = NoPage

\* a producer uploads an object while requests are in flight
Upload ==
    /\ \E object \in SharedObjects :
          /\ ~HasKey(store, object.key)
          /\ store' = Append(store, object)
    /\ UNCHANGED <<resp, arg, conv, ret, calls, requests, page>>

\* a request arrives and its handler awaits the list call
Arrive ==
    /\ \E slot \in DOMAIN requests, endpoint \in Endpoints :
          /\ requests[slot] = Idle
          /\ requests' = [requests EXCEPT
                ![slot] = [phase |-> "awaiting", endpoint |-> endpoint]]
    /\ UNCHANGED <<store, resp, arg, conv, ret, calls, page>>

\* the list call of a request returns and its handler builds the response
Complete ==
    /\ \E slot \in DOMAIN requests, listOk \in BOOLEAN :
          /\ requests[slot].phase = "awaiting"
          /\ LET endpoint == requests[slot].endpoint
                  result   == IF listOk THEN Listed(R2List(PrefixOf(endpoint)))
                                        ELSE Rejected
              IN  /\ requests' = [requests EXCEPT
                        ![slot] = [ phase    |-> "done",
                                    endpoint |-> endpoint,
                                    result   |-> result,
                                    resp     |-> Answer(endpoint,
                                        ResultUsed(requests, slot, result)) ]]
                  /\ store' = AfterCalls(store,
                                  <<ListCall(PrefixOf(endpoint), listOk)>>)
    /\ UNCHANGED <<resp, arg, conv, ret, calls, page>>

\* the response of a request has been sent
Deliver ==
    /\ \E slot \in DOMAIN requests :
          /\ requests[slot].phase = "done"
          /\ requests' = [requests EXCEPT ![slot] = Idle]
    /\ UNCHANGED <<store, resp, arg, conv, ret, calls, page>>

NextConcurrent == Upload \/ Delete \/ Arrive \/ Complete \/ Deliver

SpecConcurrent == InitConcurrent /\ [][NextConcurrent]_vars

----------------------------------------------------------------------------
(* The download page: the script of GET / running in a browser *)

\* String.prototype.toLowerCase on ASCII text
LowerChar(c) ==
    IF c \in { "A", "B", "C", "D", "E", "F", "G", "H", "I", "J", "K", "L", "M",
               "N", "O", "P", "Q", "R", "S", "T", "U", "V", "W", "X", "Y", "Z" }
    THEN Ascii[CharCode(c) + 32 - AsciiBase + 1]
    ELSE c

toLowerCase(text) == [i \in 1..Len(text) |-> LowerChar(text[i])]

\* String.prototype.includes
includes(text, part) ==
    \E start \in 1..(Len(text) - Len(part) + 1) :
        SubSeq(text, start, start + Len(part) - 1) = part

\* the order of Array.prototype.sort() without a comparator: by the codes
\* of the characters, a prefix before its extensions
RECURSIVE LexLess(_, _)
LexLess(a, b) ==
    IF b = <<>> THEN FALSE
    ELSE IF a = <<>> THEN TRUE
    ELSE IF Head(a) # Head(b) THEN CharCode(Head(a)) < CharCode(Head(b))
    ELSE LexLess(Tail(a), Tail(b))

\* Object.keys(grouped).sort()
RECURSIVE SortKeys(_)
SortKeys(keys) ==
    IF keys = {} THEN <<>>
    ELSE LET least == CHOOSE k \in keys : \A other \in keys \ {k} : LexLess(k, other)
         IN  <<least>> \o SortKeys(keys \ {least})

\* new Date(iso).getTime() for the text toISOString wrote
DateOf(iso) ==
    LET y   == IF iso.month <= 2 THEN iso.year - 1 ELSE iso.year
        era == y \div 400
        yoe == y - era * 400
        mp  == IF iso.month > 2 THEN iso.month - 3 ELSE iso.month + 9
        doy == ((153 * mp + 2) \div 5) + iso.day - 1
        doe == yoe * 365 + (yoe \div 4) - (yoe \div 100) + doy
        days == era * 146097 + doe - 719468
    IN  days * 86400000 + iso.hour * 3600000 + iso.minute * 60000
            + iso.second * 1000 + iso.ms

\* (a, b) => new Date(b.metadata.uploadDate) - new Date(a.metadata.uploadDate)
compareCards(a, b) ==
    DateOf(b.metadata.uploadDate) - DateOf(a.metadata.uploadDate)

\* the stable sort of one group
InsertCard(sorted, x) ==
    LET before == { i \in 1..Len(sorted) : compareCards(sorted[i], x) <= 0 }
        n      == Cardinality(before)
    IN  SubSeq(sorted, 1, n) \o <<x>> \o SubSeq(sorted, n + 1, Len(sorted))

RECURSIVE SortCards(_)
SortCards(releases) ==
    IF releases = <<>> THEN <<>>
    ELSE InsertCard(SortCards(SubSeq(releases, 1, Len(releases) - 1)),
                    releases[Len(releases)])

\* what the releases container shows
Loading    == [kind |-> "loading"]
EmptyState == [kind |-> "empty"]
ErrorShown == [kind |-> "error"]

\* grouped[product].push is not a function
TypeError == [kind |-> "TypeError"]

\* renderReleases: the content of the container, or the TypeError thrown.
\* grouped is an object literal: for a product named like a member of
\* Object.prototype, grouped[product] is the inherited member, no array
\* is made and push is not a function.
renderReleases(filteredReleases) ==
    IF filteredReleases = <<>> THEN EmptyState
    ELSE IF \E j \in 1..Len(filteredReleases) :
                filteredReleases[j].metadata.product \in ObjectPrototypeProps
    THEN TypeError
    ELSE LET products ==
                 SortKeys({ filteredReleases[j].metadata.product :
                              j \in 1..Len(filteredReleases) })
         IN  [ kind   |-> "groups",
               groups |->
                 [ g \in 1..Len(products) |->
                     [ product  |-> products[g],
                       releases |-> SortCards(SelectSeq(filteredReleases,
                           LAMBDA release :
                               release.metadata.product = products[g])) ] ] ]

\* the test of applyFilters for one release, on the values of the controls
MatchesFilters(release, productFilter, platformFilter, searchFilter) ==
    LET matchesProduct  == \/ ~Truthy(productFilter)
                           \/ release.metadata.product = productFilter
        matchesPlatform == \/ ~Truthy(platformFilter)
                           \/ release.metadata.platform = platformFilter
        matchesSearch   ==
            \/ ~Truthy(searchFilter)
            \/ includes(toLowerCase(release.metadata.filename), searchFilter)
            \/ includes(toLowerCase(release.metadata.version), searchFilter)
            \/ includes(toLowerCase(release.metadata.product), searchFilter)
    IN  matchesProduct /\ matchesPlatform /\ matchesSearch

\* applyFilters: filteredReleases is assigned, then renderReleases runs; if
\* it throws, the container keeps what it showed
applyFilters(state) ==
    LET filtered == SelectSeq(state.allReleases, LAMBDA release :
                        MatchesFilters(release, state.productFilter,
                            state.platformFilter,
                            toLowerCase(state.searchFilter)))
        rendered == renderReleases(filtered)
    IN  [state EXCEPT !.filteredReleases = filtered,
                      !.container = IF rendered = TypeError THEN @ ELSE rendered]

\* most objects in the bucket the page lists
MaxShown == 3

\* a/w/m-x/F: product a once more, an upper-case file name
KeyUpper == <<"a", "/", "w", "/", "m", "-", "x", "/", "F">>

PageObjects ==
    { [ key |-> KeyA,     customMetadata |-> <<>>, size |-> 1, uploaded |-> Date(1) ],
      [ key |-> KeyB,     customMetadata |-> <<>>, size |-> 1, uploaded |-> Date(2) ],
      [ key |-> KeyUpper, customMetadata |-> <<>>, size |-> 1, uploaded |-> Date(2) ],
      [ key |-> KeyCtor,  customMetadata |-> <<>>, size |-> 1, uploaded |-> Date(1) ] }

PageBuckets ==
    { b \in UNION { [1..n -> PageObjects] : n \in 0..MaxShown } :
        \A i, j \in 1..Len(b) : i # j => b[i].key # b[j].key }

\* what a user types into the search box
SearchTexts == { <<>>, <<"f">>, <<"W">>, <<"b">> }

\* the page as the browser shows it before the script's fetch returns
PageOpened ==
    [ open             |-> TRUE,
      load             |-> "pending",
      allReleases      |-> <<>>,
      filteredReleases |-> <<>>,
      productOptions   |-> { <<>> },
      platformOptions  |-> { <<>> },
      productFilter    |-> <<>>,
      platformFilter   |-> <<>>,
      searchFilter     |-> <<>>,
      container        |-> Loading ]

InitPage ==
    /\ store \in PageBuckets
    /\ resp = NoResponse
    /\ arg = NoObject
    /\ conv = NoConv
    /\ ret = NotCalled
    /\ calls = <<>>
    /\ requests = <<>>
    /\ page = PageOpened

\* the user picks an option of the product select: 'change' -> applyFilters
SelectProduct ==
    /\ \E value \in page.productOptions \ { page.productFilter } :
          page' = applyFilters([page EXCEPT !.productFilter = value])
    /\ UNCHANGED <<store, resp, arg, conv, ret, calls, requests>>

\* the user picks an option of the platform select: 'change' -> applyFilters
SelectPlatform ==
    /\ \E value \in page.platformOptions \ { page.platformFilter } :
          page' = applyFilters([page EXCEPT !.platformFilter = value])
    /\ UNCHANGED <<store, resp, arg, conv, ret, calls, requests>>

\* the user edits the search box: 'input' -> applyFilters
TypeSearch ==
    /\ \E text \in SearchTexts \ { page.searchFilter } :
          page' = applyFilters([page EXCEPT !.searchFilter = text])
    /\ UNCHANGED <<store, resp, arg, conv, ret, calls, requests>>

\* loadReleases after fetch('/api/releases') returned the listing
LoadSucceeds ==
    /\ page.load = "pending"
    /\ LET releases == ReleasesResponse(R2List(<<>>)).releases
           rendered == renderReleases(releases)
       IN  page' = [page EXCEPT
               !.load             = "done",
               !.allReleases      = releases,
               !.filteredReleases = releases,
               !.productOptions   = @ \cup { releases[j].metadata.product :
                                                j \in 1..Len(releases) },
               !.platformOptions  = @ \cup { releases[j].metadata.platform :
                                                j \in 1..Len(releases) },
               !.container        = IF rendered = TypeError THEN ErrorShown
                                                            ELSE rendered]
    /\ UNCHANGED <<store, resp, arg, conv, ret, calls, requests>>

\* loadReleases when the fetch fails or the response is not ok
LoadFails ==
    /\ page.load = "pending"
    /\ page' = [page EXCEPT !.load = "failed", !.container = ErrorShown]
    /\ UNCHANGED <<store, resp, arg, conv, ret, calls, requests>>

NextPage ==
    SelectProduct \/ SelectPlatform \/ TypeSearch \/ LoadSucceeds \/ LoadFails

SpecPage == InitPage /\ [][NextPage]_vars

----------------------------------------------------------------------------
(* Claims about parseReleaseMetadata, checked under SpecParse *)

\* parseReleaseMetadata was called and returned metadata
Parsed == ret # NotCalled /\ ret # Null

\* what the key alone gives: the same object parsed without its tags
FromKey(object) == parseReleaseMetadata([object EXCEPT !.customMetadata = <<>>])

\* C1: for a key of at least 4 segments and any tag map, each of product,
\* version, platform and arch is the tag's value when the tag is set and
\* non-empty, and otherwise the value the key gives; product and version
\* from the key are its first and second segment.
C1_TagOverridePrecedence ==
    (Parsed /\ conv = NoConv /\ Len(Split(arg.key, "/")) >= 4) =>
        /\ \A n \in TagNames :
              ret[n] = IF Truthy(Tag(arg.customMetadata, n))
                       THEN Tag(arg.customMetadata, n)
                       ELSE FromKey(arg)[n]
        /\ FromKey(arg).product = Split(arg.key, "/")[1]
        /\ FromKey(arg).version = Split(arg.key, "/")[2]

\* the case of the spec's example: key a/b/a-b/a with only the product tag
\* set gives the tag's product and version, platform and arch of the key
C1_Witness ==
    /\ Parsed
    /\ arg.key = <<"a", "/", "b", "/", "a", "-", "b", "/", "a">>
    /\ arg.customMetadata =
          [n \in TagNames |-> IF n = "product" THEN <<"q">> ELSE <<>>]
    /\ ret.product = <<"q">>
    /\ ret.version = <<"b">>
    /\ ret.platform = <<"a">>
    /\ ret.arch = <<"b">>

\* C10 as stated: a key built as product/version/platform-arch/filename
\* from fields without '/' (platform and arch without '-') parses, with
\* no tags, back to the five fields it was built from.
C10_RoundTripAnyFields ==
    (Parsed /\ conv # NoConv) =>
        /\ ret.product = conv.product
        /\ ret.version = conv.version
        /\ ret.platform = conv.platform
        /\ ret.arch = conv.arch
        /\ ret.filename = conv.filename

\* C10 amended: product, version, platform and filename always come back;
\* arch comes back when it is not empty, and an empty arch comes back as
\* "unknown".
C10_RoundTrip ==
    (Parsed /\ conv # NoConv) =>
        /\ ret.product = conv.product
        /\ ret.version = conv.version
        /\ ret.platform = conv.platform
        /\ ret.filename = conv.filename
        /\ ret.arch = IF conv.arch = <<>> THEN Unknown ELSE conv.arch

\* a key with dashes in product and version and a nested filename came back
C10_Witness ==
    /\ Parsed
    /\ conv # NoConv
    /\ conv.product = <<"b", "-", "a">>
    /\ conv.version = <<"b", "-", "a">>
    /\ conv.platform = <<"a">>
    /\ conv.arch = <<"b">>
    /\ conv.filename = <<"d", "/", "f">>
    /\ ret.arch = <<"b">>
    /\ ret.filename = <<"d", "/", "f">>

\* C11: for a key of fewer than 4 segments, product, version, platform
\* and arch come from the tags only, each "unknown" when its tag is
\* missing or empty; the key's segments supply none of them.
C11_ShortKeyFallback ==
    (Parsed /\ conv = NoConv /\ Len(Split(arg.key, "/")) < 4) =>
        \A n \in TagNames :
            ret[n] = IF Truthy(Tag(arg.customMetadata, n))
                     THEN Tag(arg.customMetadata, n)
                     ELSE Unknown

\* the three-segment key a/b/a without tags gave "unknown" four times
C11_Witness ==
    /\ Parsed
    /\ arg.key = <<"a", "/", "b", "/", "a">>
    /\ arg.customMetadata = <<>>
    /\ \A n \in TagNames : ret[n] = Unknown
    /\ ret.filename = <<"a">>

\* C12: every metadata returned, for any key and any tags, has a non-empty
\* product, version, platform and arch.
C12_FieldsNeverEmpty ==
    Parsed => \A n \in TagNames : ret[n] # <<>> /\ ret[n] # Undefined

\* C13: uploadDate is the stored creation time in ISO-8601, size the
\* stored size and filename what the key gives, whatever the tags are:
\* the same object under any other tag map, tags named size, uploadDate
\* and filename included, gives the same three values.
C13_TagsLeaveStoredFields ==
    (Parsed /\ conv = NoConv) =>
        /\ ret.size = arg.size
        /\ arg.uploaded = LaterDate =>
              ret.uploadDate = [ year |-> 1970, month |-> 1, day |-> 2, hour |-> 1,
                                 minute |-> 1, second |-> 1, ms |-> 1 ]
        /\ \A tags \in ParseTagMaps :
              LET other == parseReleaseMetadata([arg EXCEPT !.customMetadata = tags])
              IN  /\ other.uploadDate = ret.uploadDate
                  /\ other.size = ret.size
                  /\ other.filename = ret.filename

\* an object tagged size, uploadDate and filename kept its stored size and
\* date and the filename of its key
C13_Witness ==
    /\ Parsed
    /\ conv = NoConv
    /\ arg.customMetadata = [n \in StorageFieldNames |-> TagValue(n)]
    /\ arg.key = <<"a", "/", "b", "/", "a", "-", "b", "/", "a">>
    /\ arg.size = 2
    /\ arg.uploaded = LaterDate
    /\ ret.size = 2
    /\ ret.filename = <<"a">>
    /\ ret.uploadDate.day = 2

\* C14: parseReleaseMetadata returns metadata for every key and tag map
\* when the object carries its creation time, and null only when it does
\* not.
C14_NullOnlyWithoutTimestamp ==
    ret # NotCalled => (ret = Null <=> arg.uploaded = Absent)

\* the empty key, with a creation time, gave metadata
C14_Witness ==
    /\ Parsed
    /\ arg.key = <<>>
    /\ arg.uploaded = Date(1)
    /\ ret.filename = <<>>

----------------------------------------------------------------------------
(* Claims about the listings *)

Served(kind) == resp.kind = kind /\ resp.success

\* where the bucket lists the object with this key
ListedAt(key) == CHOOSE i \in 1..Len(store) : store[i].key = key

Parseable == { i \in 1..Len(store) : parseReleaseMetadata(store[i]) # Null }

ResponseKeys == { resp.releases[j].key : j \in 1..Len(resp.releases) }

\* C2: the full listing and the product listing are in descending order
\* of uploaded, and entries with the same uploaded keep the order in which
\* the bucket listed them.  Checked under SpecList.
C2_NewestFirstStable ==
    (Served("releases") \/ Served("product")) =>
        \A i, j \in 1..Len(resp.releases) :
            i < j =>
                /\ getTime(resp.releases[i].uploaded)
                       >= getTime(resp.releases[j].uploaded)
                /\ resp.releases[i].uploaded = resp.releases[j].uploaded
                       => ListedAt(resp.releases[i].key)
                              < ListedAt(resp.releases[j].key)

\* the spec's example: the bucket lists T1, T2, T2 and the listing is
\* the first T2, the second T2, then T1
C2_Witness ==
    /\ Served("releases")
    /\ Len(store) = 3
    /\ store[1].uploaded = Date(1)
    /\ store[2].uploaded = Date(2)
    /\ store[3].uploaded = Date(2)
    /\ Len(resp.releases) = 3
    /\ resp.releases[1].key = store[2].key
    /\ resp.releases[2].key = store[3].key
    /\ resp.releases[3].key = store[1].key

\* C3: the full listing holds exactly one entry for each listed object
\* that parses and nothing else; each entry carries its object's key, size
\* and uploaded and the parsed metadata; count is the number of entries.
C3_ListingIsTheParsedBatch ==
    Served("releases") =>
        /\ resp.count = Len(resp.releases)
        /\ Len(resp.releases) = Cardinality(Parseable)
        /\ ResponseKeys = { store[i].key : i \in Parseable }
        /\ \A j \in 1..Len(resp.releases) :
              LET object == store[ListedAt(resp.releases[j].key)]
              IN  /\ resp.releases[j].size = object.size
                  /\ resp.releases[j].uploaded = object.uploaded
                  /\ resp.releases[j].metadata = parseReleaseMetadata(object)

\* a bucket with one object that parses and one that does not: the listing
\* holds the first only
C3_Witness ==
    /\ Served("releases")
    /\ Len(store) = 2
    /\ Cardinality(Parseable) = 1
    /\ resp.count = 1
    /\ \E i \in Parseable : resp.releases[1].key = store[i].key

\* C4: every entry of the product listing for P has resolved product P;
\* an object under P/ whose product tag names another product is not in it.
C4_OnlyResolvedProduct ==
    Served("product") =>
        /\ \A j \in 1..Len(resp.releases) :
              resp.releases[j].metadata.product = resp.product
        /\ \A i \in Parseable :
              (/\ StartsWith(store[i].key, resp.product \o <<"/">>)
               /\ parseReleaseMetadata(store[i]).product # resp.product)
                  => store[i].key \notin ResponseKeys

\* the listing for a was served from a bucket that holds a/v/l-x/f
\* reassigned to product b by its tag, and leaves it out
C4_Witness ==
    /\ Served("product")
    /\ resp.product = <<"a">>
    /\ \E i \in Parseable :
          /\ store[i].key = KeyA
          /\ store[i].customMetadata = Reassigned
          /\ KeyA \notin ResponseKeys
    /\ \E i \in Parseable :
          /\ store[i].key # KeyA
          /\ parseReleaseMetadata(store[i]).product = <<"b">>

\* C5: an object whose key lies under A/ and whose product tag is B is not
\* in the product listing for A and is in the product listing for B.
C5_ReassignedListedUnderTag ==
    Served("product") =>
        \A i \in Parseable :
            \A A \in Products, B \in Products :
                (/\ A # B
                 /\ StartsWith(store[i].key, A \o <<"/">>)
                 /\ Tag(store[i].customMetadata, "product") = B)
                    => /\ resp.product = A => store[i].key \notin ResponseKeys
                       /\ resp.product = B => store[i].key \in ResponseKeys

\* the per-product count of the statistics, 0 for a product not in them
StatsCount(products, product) ==
    IF product \in DOMAIN products THEN products[product].count ELSE 0

\* C6: the product listing for P holds the keys of the full listing whose
\* resolved product is P, and its count is the statistics' count for P.
C6_EndpointsAgree ==
    Served("product") =>
        LET full  == SortReleases(CollectReleases(R2List(<<>>)))
            stats == Accumulate(EmptyStats, R2List(<<>>))
        IN  /\ ResponseKeys =
                  { full[j].key : j \in { k \in 1..Len(full) :
                                            full[k].metadata.product = resp.product } }
            /\ resp.count = StatsCount(stats.products, resp.product)

----------------------------------------------------------------------------
(* Claims about the statistics *)

\* the objects of the bucket that parse, with their resolved product/platform
ParsedWithProduct(product) ==
    { i \in Parseable : parseReleaseMetadata(store[i]).product = product }

ParsedWithPlatform(platform) ==
    { i \in Parseable : parseReleaseMetadata(store[i]).platform = platform }

RECURSIVE SizeOf(_)
SizeOf(indices) ==
    IF indices = {} THEN 0
    ELSE LET i == CHOOSE k \in indices : TRUE
         IN  store[i].size + SizeOf(indices \ {i})

RECURSIVE SumOfCounts(_, _)
SumOfCounts(products, names) ==
    IF names = {} THEN 0
    ELSE LET n == CHOOSE k \in names : TRUE
         IN  products[n].count + SumOfCounts(products, names \ {n})

\* C7: totalReleases is the length of the full listing of the same batch,
\* and the per-product counts add up to totalReleases.
C7_AggregateConsistency ==
    Served("stats") =>
        /\ resp.stats.totalReleases = Len(SortReleases(CollectReleases(R2List(<<>>))))
        /\ SumOfCounts(resp.stats.products, DOMAIN resp.stats.products)
               = resp.stats.totalReleases

\* C8: products[P] holds the number and the total size of the parsed
\* objects whose resolved product is P, platforms[Q] the number of those
\* whose resolved platform is Q, and totalSize the size of all of them.
C8_GroupedByResolvedValues ==
    Served("stats") =>
        /\ resp.stats.totalSize = SizeOf(Parseable)
        /\ \A i \in Parseable :
              LET P == parseReleaseMetadata(store[i]).product
                  Q == parseReleaseMetadata(store[i]).platform
              IN  /\ P \in DOMAIN resp.stats.products
                  /\ resp.stats.products[P] =
                        [ count |-> Cardinality(ParsedWithProduct(P)),
                          size  |-> SizeOf(ParsedWithProduct(P)) ]
                  /\ Q \in DOMAIN resp.stats.platforms
                  /\ resp.stats.platforms[Q] =
                        Number(Cardinality(ParsedWithPlatform(Q)))
        /\ \A P \in DOMAIN resp.stats.products : ParsedWithProduct(P) # {}
        /\ \A Q \in DOMAIN resp.stats.platforms : ParsedWithPlatform(Q) # {}

\* C9: the statistics carry latestUpload, the greatest uploaded of the
\* parsed objects, unset when there is none.
C9_LatestUploadIsMax ==
    Served("stats") =>
        /\ "latestUpload" \in DOMAIN resp.stats
        /\ IF Parseable = {} THEN resp.stats.latestUpload = Absent
           ELSE /\ \E i \in Parseable : resp.stats.latestUpload = store[i].uploaded
                /\ \A i \in Parseable :
                      getTime(resp.stats.latestUpload) >= getTime(store[i].uploaded)

----------------------------------------------------------------------------
(* Claims about unparsed entries and failed list calls *)

\* the request being served made a list call
Listing == calls # <<>> /\ calls[1].op = "list"

\* the parsed objects the product listing keeps: under the prefix listed,
\* with the product asked for
KeptForProduct(product) ==
    { i \in Parseable :
        /\ StartsWith(store[i].key, product \o <<"/">>)
        /\ parseReleaseMetadata(store[i]).product = product }

\* C15: an object for which the parser yields no metadata is left out of
\* the full listing, the product listing and the statistics, and the
\* request still succeeds: the listings hold exactly the objects that
\* parse (for the product listing, those of them it keeps), and the
\* statistics count and sum exactly the objects that parse.
C15_UnparsedSilentlyExcluded ==
    (Listing /\ calls[1].ok) =>
        /\ resp.status = 200
        /\ resp.success
        /\ resp.kind = "releases" =>
              /\ ResponseKeys = { store[i].key : i \in Parseable }
              /\ resp.count = Cardinality(Parseable)
        /\ resp.kind = "product" =>
              /\ ResponseKeys =
                    { store[i].key : i \in KeptForProduct(resp.product) }
              /\ resp.count = Cardinality(KeptForProduct(resp.product))
        /\ resp.kind = "stats" =>
              /\ resp.stats.totalReleases = Cardinality(Parseable)
              /\ resp.stats.totalSize = SizeOf(Parseable)

\* an object without metadata is stored before one that parses, and the
\* full listing succeeds with the second alone
C15_Witness ==
    /\ Served("releases")
    /\ Len(store) = 2
    /\ parseReleaseMetadata(store[1]) = Null
    /\ parseReleaseMetadata(store[2]) # Null
    /\ resp.count = 1
    /\ resp.releases[1].key = store[2].key

\* C18: when the list call fails, each of the three endpoints answers 500
\* with success false and no data; when it succeeds with no entry, each
\* answers 200 with success true and count 0 and no release, or totals 0.
C18_FailureIsNotEmpty ==
    Listing =>
        IF calls[1].ok
        THEN R2List(calls[1].prefix) = <<>> =>
                /\ resp.status = 200
                /\ resp.success
                /\ resp.kind \in {"releases", "product"} =>
                      resp.count = 0 /\ resp.releases = <<>>
                /\ resp.kind = "stats" =>
                      /\ resp.stats.totalReleases = 0
                      /\ resp.stats.totalSize = 0
        ELSE /\ resp.status = 500
             /\ resp.success = FALSE
             /\ DOMAIN resp = {"kind", "status", "success"}

\* the list call fails on a bucket that holds two objects that parse
C18_Witness ==
    /\ Listing
    /\ ~calls[1].ok
    /\ resp.kind = "releases"
    /\ resp.status = 500
    /\ Len(store) = 2
    /\ Parseable = {1, 2}

----------------------------------------------------------------------------
(* Claims about GET /download/* *)

\* the number a decimal string denotes
RECURSIVE ParseDecimal(_)
ParseDecimal(digits) ==
    IF digits = <<>> THEN 0
    ELSE 10 * ParseDecimal(SubSeq(digits, 1, Len(digits) - 1))
            + HexValue(digits[Len(digits)])

\* the request being served is a download whose store call did not fail
DownloadServed ==
    resp.kind = "download" /\ \A j \in 1..Len(calls) : calls[j].ok

TargetAbsent ==
    \/ ~decodeURIComponent(resp.path).ok
    \/ \A i \in 1..Len(store) :
          store[i].key # decodeURIComponent(resp.path).value

\* C17: a download whose target is not in the bucket answers 404 unless
\* the store call fails, and a download answers 500 only when the store
\* call failed.
C17_AbsentKeyNotFound ==
    resp.kind = "download" =>
        /\ resp.status = 500 => (calls # <<>> /\ ~calls[1].ok)
        /\ (TargetAbsent /\ DownloadServed) => resp.status = 404

----------------------------------------------------------------------------
(* Claims about formatFileSize, checked under SpecFormat *)

EndsWith(text, suffix) ==
    /\ Len(text) >= Len(suffix)
    /\ SubSeq(text, Len(text) - Len(suffix) + 1, Len(text)) = suffix

\* C20: the text formatFileSize returns ends in a space and one of B, KB,
\* MB, GB, TB, and in TB for every byte count of 1024^4 or more.
C20_UnitClamped ==
    ret # NoText =>
        /\ \E i \in 1..Len(sizes) : EndsWith(ret, <<" ">> \o sizes[i])
        /\ Len(arg) >= 5 => EndsWith(ret, <<" ", "T", "B">>)

----------------------------------------------------------------------------
(* Claims about the segments of the key, checked under SpecParse *)

\* the position of the first occurrence of a character, 0 when there is none
FirstIndexOf(text, char) ==
    IF \E i \in 1..Len(text) : text[i] = char
    THEN CHOOSE i \in 1..Len(text) :
            text[i] = char /\ \A j \in 1..(i - 1) : text[j] # char
    ELSE 0

\* the position of the last occurrence of a character, 0 when there is none
LastIndexOf(text, char) ==
    IF \E i \in 1..Len(text) : text[i] = char
    THEN CHOOSE i \in 1..Len(text) :
            text[i] = char /\ \A j \in (i + 1)..Len(text) : text[j] # char
    ELSE 0

\* the number of '/' in a key
Slashes(key) == Cardinality({ i \in 1..Len(key) : key[i] = "/" })

\* the position of the n-th '/' of a key that has n of them
NthSlash(key, n) ==
    CHOOSE i \in 1..Len(key) :
        key[i] = "/" /\ Cardinality({ j \in 1..i : key[j] = "/" }) = n

\* the third segment of a key of at least 4 segments
ThirdSegment(key) == SubSeq(key, NthSlash(key, 2) + 1, NthSlash(key, 3) - 1)

\* C25: for a key of at least 4 segments and no tags, platform is the
\* third segment up to its first '-' and arch everything after that '-';
\* without a '-', platform is the whole segment and arch is 'unknown'.
C25_SplitOnFirstDash ==
    (Parsed /\ conv = NoConv /\ arg.customMetadata = <<>>
        /\ Slashes(arg.key) >= 3) =>
        LET segment == ThirdSegment(arg.key)
            dash    == FirstIndexOf(segment, "-")
        IN  IF dash = 0
            THEN ret.platform = segment /\ ret.arch = Unknown
            ELSE /\ ret.platform = SubSeq(segment, 1, dash - 1)
                 /\ ret.arch = SubSeq(segment, dash + 1, Len(segment))

\* C26: for a key of fewer than 4 segments, filename is the last segment
\* of the key (the whole key when it has no '/'), an empty last segment
\* included.
C26_ShortKeyFilename ==
    (Parsed /\ conv = NoConv /\ Slashes(arg.key) < 3) =>
        ret.filename =
            SubSeq(arg.key, LastIndexOf(arg.key, "/") + 1, Len(arg.key))

\* C27: for a key of at least 4 segments, filename is the key after its
\* third '/', further '/' included.
C27_StructuredKeyFilename ==
    (Parsed /\ Slashes(arg.key) >= 3) =>
        ret.filename = SubSeq(arg.key, NthSlash(arg.key, 3) + 1, Len(arg.key))

\* a key built with the file name d/f, a nested path
C27_Witness ==
    /\ Parsed
    /\ conv # NoConv
    /\ conv.filename = <<"d", "/", "f">>
    /\ Slashes(arg.key) = 4
    /\ ret.filename = <<"d", "/", "f">>

\* b / 1024^i in hundredths, rounded half up, for i the largest integer
\* with 1024^i <= b: the number of digits of b less one
RoundedToTwoPlaces(bytes) ==
    100 * Head(bytes) + (TwoHundredTimes(Tail(bytes)) + 1) \div 2

\* C21: formatFileSize(0) is "0 B"; for 0 < b < 1024^5 the text is
\* b / 1024^i rounded to 2 places, a space and the i-th unit, for i the
\* largest integer with 1024^i <= b; 1536 gives "1.5 KB" and 1024^3 gives
\* "1 GB".
C21_FormattedValue ==
    (ret # NoText /\ Len(arg) <= 5) =>
        /\ arg = <<>> => ret = <<"0", " ", "B">>
        /\ arg # <<>> =>
              ret = HundredthsString(RoundedToTwoPlaces(arg))
                        \o <<" ">> \o sizes[Len(arg)]
        /\ arg = <<1, 512>> => ret = <<"1", ".", "5", " ", "K", "B">>
        /\ arg = <<1, 0, 0, 0>> => ret = <<"1", " ", "G", "B">>

----------------------------------------------------------------------------
(* Claims about the calls on the bucket, checked under Spec *)

\* the endpoints that read the bucket
ListKinds == {"releases", "product", "stats"}

C30_StoreReadOnly == [][resp' # resp => store' = store]_vars

\* an object has been downloaded and is still in the bucket
C30_Witness ==
    /\ resp.kind = "download"
    /\ resp.status = 200
    /\ Len(store) = 2
    /\ calls # <<>>
    /\ HasKey(store, calls[1].key)

----------------------------------------------------------------------------
(* Claims about truncated listings, checked under SpecTruncated *)

\* C24: when the list call returns only a first page of the matching
\* objects, the full listing, the product listing and the statistics
\* still cover every object of the bucket that matches.
C24_TruncationAccountedFor ==
    (Listing /\ calls[1].truncated) =>
        /\ resp.kind = "releases" =>
              ResponseKeys = { store[i].key : i \in Parseable }
        /\ resp.kind = "product" =>
              ResponseKeys =
                  { store[i].key : i \in KeptForProduct(resp.product) }
        /\ resp.kind = "stats" =>
              /\ resp.stats.totalReleases = Cardinality(Parseable)
              /\ resp.stats.totalSize = SizeOf(Parseable)

----------------------------------------------------------------------------
(* Claims about concurrent requests, checked under SpecConcurrent *)

----------------------------------------------------------------------------
(* Claims about the download page, checked under SpecPage *)

\* the place of a release in the list displayed
PlaceOf(release) ==
    CHOOSE j \in 1..Len(page.filteredReleases) :
        page.filteredReleases[j] = release

\* C22: when the loaded page has releases to display, the container shows
\* them in groups: the groups in ascending order of product name, every
\* displayed release exactly once and in the group of its product, and
\* each group newest upload first, equal times in the order of the list.
C22_GroupedForDisplay ==
    (page.open /\ page.load = "done" /\ page.filteredReleases # <<>>) =>
        /\ page.container.kind = "groups"
        /\ LET groups == page.container.groups
           IN  /\ \A g, h \in 1..Len(groups) :
                     g < h => LexLess(groups[g].product, groups[h].product)
               /\ \A j \in 1..Len(page.filteredReleases) :
                     LET release == page.filteredReleases[j]
                     IN  \A g \in 1..Len(groups) :
                           Cardinality({ k \in 1..Len(groups[g].releases) :
                                           groups[g].releases[k] = release })
                             = IF groups[g].product = release.metadata.product
                               THEN 1 ELSE 0
               /\ \A g \in 1..Len(groups) :
                     \A k, l \in 1..Len(groups[g].releases) :
                         k < l =>
                           LET first  == groups[g].releases[k]
                               second == groups[g].releases[l]
                           IN  \/ getTime(first.uploaded) > getTime(second.uploaded)
                               \/ /\ getTime(first.uploaded) = getTime(second.uploaded)
                                  /\ PlaceOf(first) < PlaceOf(second)

\* C29: the list displayed is the sub-list of allReleases that passes the
\* product select, the platform select and the search text as they stand.
C29_DisplayedMatchesControls ==
    page.open =>
        page.filteredReleases =
            SelectSeq(page.allReleases, LAMBDA release :
                /\ page.productFilter # <<>> =>
                      release.metadata.product = page.productFilter
                /\ page.platformFilter # <<>> =>
                      release.metadata.platform = page.platformFilter
                /\ page.searchFilter # <<>> =>
                      \E field \in { release.metadata.filename,
                                      release.metadata.version,
                                      release.metadata.product } :
                          includes(toLowerCase(field),
                                   toLowerCase(page.searchFilter)))

====
